---- MODULE Spec2Model ----
(***************************************************************************)
(* Model of src/bot.py: the per-user session store, the command handlers,  *)
(* the one-shot scan and the background protection loop of the voucher     *)
(* bot, as an asyncio program: every coroutine runs atomically from one    *)
(* await to the next, and coroutines of different tasks interleave at      *)
(* their awaits.                                                           *)
(***************************************************************************)
EXTENDS Integers, Sequences, FiniteSets, TLC

(***************************************************************************)
(* Text.  A string is a sequence of one-character strings.                 *)
(***************************************************************************)
WS == {" ", "\n"}

UpperChar(c) ==
    CASE c = "a" -> "A"
      [] c = "b" -> "B"
      [] OTHER -> c

\* str.upper()
Upper(s) == [i \in 1..Len(s) |-> UpperChar(s[i])]

\* str.replace(old, new) for one-character old and new
Replace(s, old, new) == [i \in 1..Len(s) |-> IF s[i] = old THEN new ELSE s[i]]

RECURSIVE SplitAcc(_, _, _, _)
SplitAcc(s, seps, cur, out) ==
    IF s = <<>>
    THEN IF cur = <<>> THEN out ELSE Append(out, cur)
    ELSE IF Head(s) \in seps
         THEN SplitAcc(Tail(s), seps, <<>>, IF cur = <<>> THEN out ELSE Append(out, cur))
         ELSE SplitAcc(Tail(s), seps, Append(cur, Head(s)), out)

\* str.split(): split on runs of whitespace, no empty words
SplitWords(s) == SplitAcc(s, WS, <<>>, <<>>)

RECURSIVE SplitKeep(_, _, _, _)
SplitKeep(s, sep, cur, out) ==
    IF s = <<>>
    THEN Append(out, cur)
    ELSE IF Head(s) = sep
         THEN SplitKeep(Tail(s), sep, <<>>, Append(out, cur))
         ELSE SplitKeep(Tail(s), sep, Append(cur, Head(s)), out)

\* str.split(sep): split on every occurrence of sep, empty pieces kept
SplitOn(s, sep) == SplitKeep(s, sep, <<>>, <<>>)

RECURSIVE StripLeft(_)
StripLeft(s) == IF s # <<>> /\ Head(s) \in WS THEN StripLeft(Tail(s)) ELSE s

RECURSIVE StripRight(_)
StripRight(s) ==
    IF s # <<>> /\ s[Len(s)] \in WS THEN StripRight(SubSeq(s, 1, Len(s) - 1)) ELSE s

\* str.strip()
Strip(s) == StripRight(StripLeft(s))

RECURSIVE Join(_, _)
\* sep.join(parts)
Join(parts, sep) ==
    IF parts = <<>> THEN <<>>
    ELSE IF Len(parts) = 1 THEN parts[1]
    ELSE parts[1] \o sep \o Join(Tail(parts), sep)

\* ctx.args of a command message: the words of the text after the command word
CtxArgs(text) == LET w == SplitWords(text) IN IF w = <<>> THEN <<>> ELSE Tail(w)

MinCodeLen == 4

RECURSIVE KeepLongUpper(_)
\* [c.strip().upper() for c in words if len(c.strip()) > 4]
KeepLongUpper(words) ==
    IF words = <<>> THEN <<>>
    ELSE (IF Len(Strip(Head(words))) > MinCodeLen
          THEN <<Upper(Strip(Head(words)))>> ELSE <<>>) \o KeepLongUpper(Tail(words))

_parse_codes(args, message_text) ==
    LET args_part == IF args # <<>> THEN Join(args, <<" ">>) ELSE <<>>
        lines     == SplitOn(message_text, "\n")
        extra     == IF Len(lines) > 1 THEN Join(Tail(lines), <<" ">>) ELSE <<>>
        combined  == Replace(args_part \o <<" ">> \o extra, ",", " ")
    IN  KeepLongUpper(SplitWords(combined))

(***************************************************************************)
(* Bounds of the model.                                                    *)
(***************************************************************************)
\* protection_loop tasks created per run, over all sessions
MaxTasks == 3
\* updates handled per run: of one session, of two sessions, of handlers alone,
\* of one session whose registry changes under its loop, of one-shot checks,
\* of checks and their buttons
MaxCmds == 4
MaxCmdsTwo == 2
MaxCmdsOnly == 3
MaxCmdsLive == 3
MaxCmdsCheck == 3
MaxCmdsButton == 3
\* calls of update_progress in one scan, when it is driven alone
MaxEvents == 3
\* codes in one call of run_scan
MaxScan == 2
\* scan cycles one protection loop runs
MaxCycle == 1
MaxCycleTwo == 2
\* sleep increments of one inter-cycle wait that the model follows
MaxIncrements == 2

\* user ids (sessions)
Users == {1, 2}

(***************************************************************************)
(* Program constants.                                                      *)
(***************************************************************************)
INTERVAL_SECONDS == 180
SLEEP_CHUNK == 5
\* range(INTERVAL_SECONDS // 5), followed for at most MaxIncrements increments
Increments ==
    IF INTERVAL_SECONDS \div SLEEP_CHUNK < MaxIncrements
    THEN INTERVAL_SECONDS \div SLEEP_CHUNK ELSE MaxIncrements
SEND_ATTEMPTS == 3

None == 0

(***************************************************************************)
(* Inputs: codes and message texts.                                        *)
(***************************************************************************)
CodeA  == <<"A", "A", "A", "A", "1">>
CodeB  == <<"B", "B", "B", "B", "1">>
codeA  == <<"a", "a", "a", "a", "1">>
Short  == <<"a", "b">>
CmdWord == <<"/">>

\* texts of /add, /protect and /check messages, command word included
CodeTexts ==
    { CmdWord,
      CmdWord \o <<" ">> \o codeA,
      CmdWord \o <<" ">> \o CodeA \o <<",">> \o CodeB,
      CmdWord \o <<" ">> \o CodeB \o <<" ">> \o Short \o <<" ">> \o CodeB,
      CmdWord \o <<"\n">> \o CodeB }

\* texts of /pause and /resume messages
OneCodeTexts ==
    { CmdWord,
      CmdWord \o <<" ">> \o codeA,
      CmdWord \o <<" ">> \o CodeB,
      CmdWord \o <<" ">> \o Short }

\* codes = _parse_codes(ctx, update.message.text or ""), for each of the texts
CommandCodes == [text \in CodeTexts |-> _parse_codes(CtxArgs(text), text)]

(***************************************************************************)
(* The session registry: an insertion-ordered dict code -> {"paused": b},  *)
(* as the sequence of its items.                                           *)
(***************************************************************************)
Keys(v) == {v[i].code : i \in 1..Len(v)}

IndexOf(v, code) == CHOOSE i \in 1..Len(v) : v[i].code = code

RECURSIVE AddLoopOverwrites(_, _, _, _)
\* a variant of the add loop that stores {"paused": False} for every code of
\* the call, the ones already present included
AddLoopOverwrites(v, codes, added, skipped) ==
    IF codes = <<>> THEN [vouchers |-> v, added |-> added, skipped |-> skipped]
    ELSE LET code == Head(codes)
         IN  IF code \in Keys(v)
             THEN AddLoopOverwrites([v EXCEPT ![IndexOf(v, code)].paused = FALSE],
                                    Tail(codes), added, Append(skipped, code))
             ELSE AddLoopOverwrites(Append(v, [code |-> code, paused |-> FALSE]),
                                    Tail(codes), Append(added, code), skipped)

RECURSIVE AddLoop(_, _, _, _)
\* for code in codes: if code not in vouchers: insert, added.append
\*                    else: skipped.append
AddLoop(v, codes, added, skipped) ==
    IF codes = <<>>
    THEN [vouchers |-> v, added |-> added, skipped |-> skipped]
    ELSE IF Head(codes) \notin Keys(v)
         THEN AddLoop(Append(v, [code |-> Head(codes), paused |-> FALSE]),
                      Tail(codes), Append(added, Head(codes)), skipped)
         ELSE AddLoop(v, Tail(codes), added, Append(skipped, Head(codes)))

AddCodes(v, codes) == AddLoop(v, codes, <<>>, <<>>)

\* [c for c, v in vouchers.items() if not v.get("paused")]
RECURSIVE ActiveCodes(_)
ActiveCodes(v) ==
    IF v = <<>> THEN <<>>
    ELSE (IF v[1].paused THEN <<>> ELSE <<v[1].code>>) \o ActiveCodes(Tail(v))

(***************************************************************************)
(* State.                                                                  *)
(***************************************************************************)
VARIABLES
    vouchers,        \* state[uid]["vouchers"]
    protect_task,    \* state[uid]["protect_task"]: index in tasks[uid], or None
    checking,        \* state[uid]["checking"]
    stop_requested,  \* state[uid]["stop_requested"]
    tasks,           \* tasks[uid]: the protection_loop tasks created for uid, in order
    chk,             \* the /check or plain-text handler in flight
    buttons,         \* buttons[uid]: protect buttons of the last result message in uid's chat
    reply,           \* what the last handled update answered
    cmds             \* updates handled so far

vars == <<vouchers, protect_task, checking, stop_requested, tasks, chk, buttons, reply, cmds>>

\* A coroutine frame: where a protection_loop task or a check handler is
\* suspended, and its local variables.
Frame(uid) ==
    [ uid       |-> uid,
      pc        |-> "created",
      cancel    |-> FALSE,      \* Task.cancel() was called and not yet delivered
      exit      |-> "",         \* how a finished task ended
      cycle     |-> 1,
      codes     |-> <<>>,       \* run_scan: codes
      idx       |-> 0,          \* run_scan: enumerate index of the code in hand
      alive     |-> <<>>,
      dead      |-> <<>>,
      errors    |-> <<>>,
      last_text |-> <<>>,       \* run_scan: last_text[0]
      edits     |-> 0,          \* run_scan: calls of bot.edit_message_text made
      n         |-> 0,          \* sleep increments slept in the current wait
      what      |-> "",         \* safe_send: which message
      attempt   |-> 0,          \* safe_send: attempt
      dur       |-> 0,          \* safe_send: seconds of the current back-off sleep
      reports   |-> 0 ]         \* crash reports delivered to the user

NoChk == [Frame(None) EXCEPT !.pc = "none"]

Init ==
    /\ vouchers = [u \in Users |-> <<>>]
    /\ protect_task = [u \in Users |-> None]
    /\ checking = [u \in Users |-> FALSE]
    /\ stop_requested = [u \in Users |-> FALSE]
    /\ tasks = [u \in Users |-> <<>>]
    /\ chk = NoChk
    /\ buttons = [u \in Users |-> {}]
    /\ reply = [uid |-> None, kind |-> "none"]
    /\ cmds = 0

\* task.done()
Done(u, t) == tasks[u][t].pc = "done"

\* s["protect_task"] and not s["protect_task"].done()
Running(u) == protect_task[u] # None /\ ~Done(u, protect_task[u])

NumTasks == LET RECURSIVE Sum(_)
                Sum(S) == IF S = {} THEN 0
                          ELSE LET u == CHOOSE x \in S : TRUE
                               IN Len(tasks[u]) + Sum(S \ {u})
            IN Sum(Users)

\* asyncio.create_task(protection_loop(bot, chat_id, uid)); s["protect_task"] = task
CreateTask(u) ==
    /\ NumTasks < MaxTasks
    /\ tasks' = [tasks EXCEPT ![u] = Append(@, Frame(u))]
    /\ protect_task' = [protect_task EXCEPT ![u] = Len(tasks[u]) + 1]

\* Awaits of asyncio.sleep and of run_in_executor: Task.cancel() cancels the
\* awaited future itself, and the task runs its except and finally clauses in
\* the next cycle of the event loop.  An await inside the Telegram client
\* (send_message, edit_message_text) may take longer to unwind.
PromptAwaits == {"sleep", "idle_sleep", "delay", "backoff", "check", "reset"}

\* The application handles one update at a time (ApplicationBuilder is not asked
\* for concurrent updates), and a handler ends by awaiting a reply over the
\* network: a task it created has taken its first step by then, and a task it
\* cancelled in a prompt await has ended.
HandlerMayRun ==
    /\ chk.pc = "none"
    /\ \A u \in Users : \A t \in 1..Len(tasks[u]) :
          /\ tasks[u][t].pc # "created"
          /\ ~(tasks[u][t].cancel /\ tasks[u][t].pc \in PromptAwaits)

Handled(u, r) ==
    /\ reply' = [uid |-> u] @@ r
    /\ cmds' = cmds + 1

cmd_add(u, text) ==
    /\ HandlerMayRun
    /\ LET codes == CommandCodes[text]
           r == AddCodes(vouchers[u], codes)
       IN IF codes = <<>>
          THEN /\ Handled(u, [kind |-> "usage"])
               /\ UNCHANGED vouchers
          ELSE /\ vouchers' = [vouchers EXCEPT ![u] = r.vouchers]
               /\ Handled(u, [kind |-> "added", added |-> Len(r.added),
                                skipped |-> Len(r.skipped)])
    /\ UNCHANGED <<protect_task, checking, stop_requested, tasks, chk, buttons>>

cmd_protect(u, text) ==
    /\ HandlerMayRun
    /\ LET codes == CommandCodes[text]
           r == AddCodes(vouchers[u], codes)
       IN IF codes = <<>>
          THEN /\ Handled(u, [kind |-> "usage"])
               /\ UNCHANGED <<vouchers, protect_task, tasks>>
          ELSE /\ vouchers' = [vouchers EXCEPT ![u] = r.vouchers]
               /\ IF Running(u)
                  THEN /\ Handled(u, [kind |-> "added_to_loop", added |-> Len(r.added),
                                        skipped |-> Len(r.skipped)])
                       /\ UNCHANGED <<protect_task, tasks>>
                  ELSE /\ CreateTask(u)
                       /\ Handled(u, [kind |-> "started", added |-> Len(r.added),
                                        skipped |-> Len(r.skipped)])
    /\ UNCHANGED <<checking, stop_requested, chk, buttons>>

cmd_run(u) ==
    /\ HandlerMayRun
    /\ IF vouchers[u] = <<>>
       THEN /\ Handled(u, [kind |-> "no_codes"])
            /\ UNCHANGED <<protect_task, tasks>>
       ELSE IF Running(u)
       THEN /\ Handled(u, [kind |-> "already_running"])
            /\ UNCHANGED <<protect_task, tasks>>
       ELSE /\ CreateTask(u)
            /\ Handled(u, [kind |-> "run_started"])
    /\ UNCHANGED <<vouchers, checking, stop_requested, chk, buttons>>

\* task.cancel(): the CancelledError is thrown into the task when it next runs
Cancel(f) == [f EXCEPT !.cancel = TRUE]

\* a variant of /stop that raises the stop flag before it looks at the handle
cmd_stop_flag_first(u) ==
    /\ HandlerMayRun
    /\ stop_requested' = [stop_requested EXCEPT ![u] = TRUE]
    /\ IF Running(u)
       THEN /\ tasks' = [tasks EXCEPT ![u][protect_task[u]] = Cancel(@)]
            /\ protect_task' = [protect_task EXCEPT ![u] = None]
            /\ Handled(u, [kind |-> "stopped"])
       ELSE /\ Handled(u, [kind |-> "not_running"])
            /\ UNCHANGED <<tasks, protect_task>>
    /\ UNCHANGED <<vouchers, checking, chk, buttons>>

cmd_stop(u) ==
    /\ HandlerMayRun
    /\ IF Running(u)
       THEN /\ stop_requested' = [stop_requested EXCEPT ![u] = TRUE]
            /\ tasks' = [tasks EXCEPT ![u][protect_task[u]] = Cancel(@)]
            /\ protect_task' = [protect_task EXCEPT ![u] = None]
            /\ Handled(u, [kind |-> "stopped"])
       ELSE /\ Handled(u, [kind |-> "not_running"])
            /\ UNCHANGED <<stop_requested, tasks, protect_task>>
    /\ UNCHANGED <<vouchers, checking, chk, buttons>>

SetPaused(v, code, b) == [v EXCEPT ![IndexOf(v, code)].paused = b]

cmd_pause(u, text) ==
    /\ HandlerMayRun
    /\ LET args == CtxArgs(text)
           code == Upper(args[1])
       IN IF args = <<>>
          THEN /\ Handled(u, [kind |-> "usage"])
               /\ UNCHANGED vouchers
          ELSE IF code \notin Keys(vouchers[u])
          THEN /\ Handled(u, [kind |-> "not_in_list", code |-> code])
               /\ UNCHANGED vouchers
          ELSE /\ vouchers' = [vouchers EXCEPT ![u] = SetPaused(@, code, TRUE)]
               /\ Handled(u, [kind |-> "paused", code |-> code])
    /\ UNCHANGED <<protect_task, checking, stop_requested, tasks, chk, buttons>>

cmd_resume(u, text) ==
    /\ HandlerMayRun
    /\ LET args == CtxArgs(text)
           code == Upper(args[1])
       IN IF args = <<>>
          THEN /\ Handled(u, [kind |-> "usage"])
               /\ UNCHANGED vouchers
          ELSE IF code \notin Keys(vouchers[u])
          THEN /\ vouchers' = [vouchers EXCEPT
                                 ![u] = Append(@, [code |-> code, paused |-> FALSE])]
               /\ Handled(u, [kind |-> "resume_added", code |-> code])
          ELSE /\ vouchers' = [vouchers EXCEPT ![u] = SetPaused(@, code, FALSE)]
               /\ Handled(u, [kind |-> "resumed", code |-> code])
    /\ UNCHANGED <<protect_task, checking, stop_requested, tasks, chk, buttons>>

cmd_clear(u) ==
    /\ HandlerMayRun
    /\ vouchers' = [vouchers EXCEPT ![u] = <<>>]
    /\ Handled(u, [kind |-> "cleared", total |-> Len(vouchers[u])])
    /\ UNCHANGED <<protect_task, checking, stop_requested, tasks, chk, buttons>>

(***************************************************************************)
(* The protect buttons: callback data and its parsing.                     *)
(***************************************************************************)
Digit == <<"0", "1", "2", "3", "4", "5", "6", "7", "8", "9">>

RECURSIVE IntToStr(_)
\* f"{uid}"
IntToStr(n) == IF n < 10 THEN <<Digit[n + 1]>> ELSE IntToStr(n \div 10) \o <<Digit[(n % 10) + 1]>>

DigitVal(c) == (CHOOSE i \in 1..10 : Digit[i] = c) - 1

RECURSIVE StrToInt(_)
\* int(uid_str)
StrToInt(s) == IF s = <<>> THEN 0 ELSE 10 * StrToInt(SubSeq(s, 1, Len(s) - 1)) + DigitVal(s[Len(s)])

RECURSIVE SplitMaxAcc(_, _, _, _, _)
SplitMaxAcc(s, sep, max, cur, out) ==
    IF s = <<>>
    THEN Append(out, cur)
    ELSE IF Head(s) = sep /\ Len(out) < max
         THEN SplitMaxAcc(Tail(s), sep, max, <<>>, Append(out, cur))
         ELSE SplitMaxAcc(Tail(s), sep, max, Append(cur, Head(s)), out)

\* str.split(sep, maxsplit)
SplitMax(s, sep, max) == SplitMaxAcc(s, sep, max, <<>>, <<>>)

\* callback_data=f"protect_one:{uid}:{c}" and f"protect_all:{uid}:{all_codes}"
CallbackData(action, uid, codes) ==
    action \o <<":">> \o IntToStr(uid) \o <<":">> \o Join(codes, <<",">>)

RECURSIVE KeepStripUpper(_)
\* [c.strip().upper() for c in pieces if c.strip()]
KeepStripUpper(pieces) ==
    IF pieces = <<>> THEN <<>>
    ELSE (IF Strip(Head(pieces)) # <<>> THEN <<Upper(Strip(Head(pieces)))>> ELSE <<>>)
         \o KeepStripUpper(Tail(pieces))

\* The buttons of a result message: one per alive code, and one for all of
\* them when more than one is alive.
Keyboard(uid, alive) ==
    {CallbackData(<<"o">>, uid, <<alive[i]>>) : i \in 1..Len(alive)}
    \cup (IF Len(alive) > 1 THEN {CallbackData(<<"a">>, uid, alive)} ELSE {})

\* callback_protect that starts a loop whatever is running
callback_protect_restarts(presser, chat, data, removed) ==
    /\ HandlerMayRun
    /\ data \in buttons[chat]
    /\ LET parts == SplitMax(data, ":", 2)
           uid   == StrToInt(parts[2])
           codes_to_add == KeepStripUpper(SplitOn(parts[3], ","))
           r     == AddCodes(vouchers[uid], codes_to_add)
       IN /\ Len(parts) >= 3
          /\ vouchers' = [vouchers EXCEPT ![uid] = r.vouchers]
          /\ CreateTask(uid)
          /\ Handled(presser, [kind |-> "button", target |-> uid, n |-> Len(codes_to_add),
                                added |-> Len(r.added), skipped |-> Len(r.skipped),
                                started |-> TRUE])
    /\ buttons' = IF removed THEN [buttons EXCEPT ![chat] = {}] ELSE buttons
    /\ UNCHANGED <<checking, stop_requested, chk>>

\* presser taps a button of the result message in chat; removed tells whether
\* taking the buttons off that message worked
callback_protect(presser, chat, data, removed) ==
    /\ HandlerMayRun
    /\ data \in buttons[chat]
    /\ LET parts == SplitMax(data, ":", 2)
           uid   == StrToInt(parts[2])
           codes_to_add == KeepStripUpper(SplitOn(parts[3], ","))
           r     == AddCodes(vouchers[uid], codes_to_add)
           loop_started == protect_task[uid] = None \/ Done(uid, protect_task[uid])
       IN /\ Len(parts) >= 3
          /\ vouchers' = [vouchers EXCEPT ![uid] = r.vouchers]
          /\ IF loop_started THEN CreateTask(uid) ELSE UNCHANGED <<protect_task, tasks>>
          /\ Handled(presser, [kind |-> "button", target |-> uid, n |-> Len(codes_to_add),
                                added |-> Len(r.added), skipped |-> Len(r.skipped),
                                started |-> loop_started])
    /\ buttons' = IF removed THEN [buttons EXCEPT ![chat] = {}] ELSE buttons
    /\ UNCHANGED <<checking, stop_requested, chk>>

(***************************************************************************)
(* The remote check.  A remote outcome is what the POST of _check_voucher  *)
(* meets: no response (unreachable, timeout), a response whose body is not *)
(* JSON, a response whose body is a JSON object, or a response whose body  *)
(* is the JSON value true (r.json() returns the bool True).                *)
(***************************************************************************)
NoData == [none |-> TRUE, scalar |-> FALSE, obj |-> <<>>]

JsonObject(o) == [none |-> FALSE, scalar |-> FALSE, obj |-> o]

JsonTrue == [none |-> FALSE, scalar |-> TRUE, obj |-> <<>>]

Bodies ==
    { <<>>,
      [k \in {"errorMessage"} |-> "used"],
      [k \in {"errorMessage"} |-> ""],
      [k \in {"voucher"} |-> "ok"],
      [k \in {"errorMessage", "voucher"} |-> "not applicable"] }

RemoteOutcomes ==
    {[kind |-> "unreachable", status |-> None, body |-> <<>>]}
    \cup {[kind |-> "garbage", status |-> st, body |-> <<>>] : st \in {200, 502}}
    \cup {[kind |-> "json", status |-> st, body |-> b] : st \in {200, 403}, b \in Bodies}
    \cup {[kind |-> "true", status |-> 200, body |-> <<>>]}

\* returns (status_code, json_data), (status_code, None) or (None, None)
_check_voucher(o) ==
    IF o.kind = "unreachable" THEN [status |-> None, data |-> NoData]
    ELSE IF o.kind = "garbage" THEN [status |-> o.status, data |-> NoData]
    ELSE IF o.kind = "true" THEN [status |-> o.status, data |-> JsonTrue]
    ELSE [status |-> o.status, data |-> JsonObject(o.body)]

\* "errorMessage" in data raises TypeError when data is the bool True
IsValidRaises(data) == data.scalar

\* on None and on objects
_is_valid(data) ==
    IF data.none \/ DOMAIN data.obj = {} THEN FALSE
    ELSE IF "errorMessage" \in DOMAIN data.obj THEN FALSE
    ELSE TRUE

\* the bucket run_scan appends the code to, or "raise" when _is_valid raises
Bucket(r) ==
    IF r.status = None /\ r.data.none THEN "errors"
    ELSE IF IsValidRaises(r.data) THEN "raise"
    ELSE IF _is_valid(r.data) THEN "alive"
    ELSE "dead"

(***************************************************************************)
(* Coroutine steps.  Each operator below is the code run from the return   *)
(* of one await to the next await, as a function of the frame; v and stop  *)
(* are the session's vouchers and stop_requested at that moment, loop      *)
(* tells a protection_loop task from a check handler.                      *)
(***************************************************************************)
DoneMark == <<"D", "o", "n", "e">>

NoScan(f) ==
    [f EXCEPT !.codes = <<>>, !.idx = 0, !.alive = <<>>, !.dead = <<>>,
              !.errors = <<>>, !.last_text = <<>>, !.edits = 0]

\* end of the task: the finally clause has run
Fin(f, how) ==
    [Frame(f.uid) EXCEPT !.pc = "done", !.exit = how, !.reports = f.reports]

\* safe_send is entered: first attempt
EnterSend(f, what) == [f EXCEPT !.pc = "send", !.what = what, !.attempt = 0, !.dur = 0]

\* LoopHead of a loop that ends when it finds no active code
LoopHeadEndsIdle(f, v, stop) ==
    IF stop \/ ActiveCodes(v) = <<>> THEN Fin(f, "returned")
    ELSE [NoScan(f) EXCEPT !.pc = "start_send", !.codes = ActiveCodes(v)]

\* LoopHead with a scan set that takes the paused codes too
LoopHeadScansPaused(f, v, stop) ==
    IF stop THEN Fin(f, "returned")
    ELSE IF v = <<>>
         THEN EnterSend(NoScan(f), "idle")
         ELSE [NoScan(f) EXCEPT !.pc = "start_send", !.codes = [i \in 1..Len(v) |-> v[i].code]]

\* while not s["stop_requested"]: ... up to the first await of the iteration
LoopHead(f, v, stop) ==
    IF stop THEN Fin(f, "returned")
    ELSE IF ActiveCodes(v) = <<>>
         THEN EnterSend(NoScan(f), "idle")
         ELSE [NoScan(f) EXCEPT !.pc = "start_send", !.codes = ActiveCodes(v)]

\* for _ in range(INTERVAL_SECONDS // 5): if s["stop_requested"]: break; sleep(5)
WaitIter(f, v, stop, pc) ==
    IF f.n >= Increments \/ stop
    THEN LoopHead([f EXCEPT !.n = 0], v, stop)
    ELSE [f EXCEPT !.pc = pc]

\* the text update_progress renders is determined by these values
ProgressText(f, done, current) == <<done, Len(f.codes), Len(f.alive), Len(f.dead), current>>

\* run_scan returned (alive, dead, errors) to its caller
ScanReturn(f, loop) ==
    IF loop THEN EnterSend(f, "summary")
    ELSE IF f.alive # <<>> THEN [f EXCEPT !.pc = "result_send"]
    ELSE EnterSend(f, "result")

AfterProgress(f, loop) ==
    IF f.idx <= Len(f.codes) THEN [f EXCEPT !.pc = "check"] ELSE ScanReturn(f, loop)

\* update_progress without the comparison with last_text[0]
update_progress_always(f, done, current) ==
    IF Len(f.codes) = 0 THEN f
    ELSE [f EXCEPT !.last_text = ProgressText(f, done, current),
                   !.pc = "edit", !.edits = @ + 1]

\* update_progress(done, current) up to its await: it returns at once when
\* total == 0 or when the text is last_text[0]; else it stores the text and
\* calls bot.edit_message_text (progress_msg_id is set by both callers)
update_progress(f, done, current) ==
    LET text == ProgressText(f, done, current)
    IN  IF Len(f.codes) = 0 \/ text = f.last_text
        THEN f
        ELSE [f EXCEPT !.last_text = text, !.pc = "edit", !.edits = @ + 1]

\* update_progress(idx - 1, code) of the code in hand, or
\* update_progress(total, "Done") after the last one
ScanNext(f, loop) ==
    LET g == update_progress(f, f.idx - 1,
                             IF f.idx <= Len(f.codes) THEN f.codes[f.idx] ELSE DoneMark)
    IN  IF g = f THEN AfterProgress(f, loop) ELSE g

\* run_scan(bot, chat_id, codes, progress_msg_id) up to its first await
ScanStart(f, codes, loop) == ScanNext([NoScan(f) EXCEPT !.codes = codes, !.idx = 1], loop)

\* run_scan that skips the clean-up of a code whose check got no response
AfterCheckSkipsCleanup(f, r) ==
    LET code == f.codes[f.idx]
        b    == Bucket(r)
    IN  [f EXCEPT !.alive  = IF b = "alive"  THEN Append(@, code) ELSE @,
                  !.dead   = IF b = "dead"   THEN Append(@, code) ELSE @,
                  !.errors = IF b = "errors" THEN Append(@, code) ELSE @,
                  !.pc = IF b = "raise" THEN "raised"
                         ELSE IF b = "errors" THEN "delay" ELSE "reset"]

\* _check_voucher returned r: bucket the code, then call _reset_voucher; or
\* the exception of _is_valid leaves run_scan
AfterCheck(f, r) ==
    LET code == f.codes[f.idx]
        b    == Bucket(r)
    IN  [f EXCEPT !.alive  = IF b = "alive"  THEN Append(@, code) ELSE @,
                  !.dead   = IF b = "dead"   THEN Append(@, code) ELSE @,
                  !.errors = IF b = "errors" THEN Append(@, code) ELSE @,
                  !.pc = IF b = "raise" THEN "raised" ELSE "reset"]

AfterReset(f) == [f EXCEPT !.pc = "delay"]

AfterDelay(f, loop) == ScanNext([f EXCEPT !.idx = @ + 1], loop)

\* safe_send returned, delivered or given up
AfterSend(f, v, stop) ==
    LET g == [f EXCEPT !.what = "", !.attempt = 0, !.dur = 0]
    IN  CASE f.what = "idle"    -> WaitIter([g EXCEPT !.n = 0], v, stop, "idle_sleep")
          [] f.what = "summary" -> WaitIter([NoScan(g) EXCEPT !.cycle = @ + 1, !.n = 0],
                                            v, stop, "sleep")
          [] f.what = "crash"   -> Fin(g, "crashed")
          [] OTHER              -> NoChk

\* a variant of safe_send that goes on to the next attempt after a delivery
AfterAttemptNoReturn(f, res, v, stop) ==
    IF res = "ok"
    THEN LET g == [f EXCEPT !.reports = IF f.what = "crash" THEN @ + 1 ELSE @]
         IN  IF f.attempt + 1 < SEND_ATTEMPTS
             THEN [g EXCEPT !.attempt = @ + 1]
             ELSE AfterSend(g, v, stop)
    ELSE [f EXCEPT !.pc = "backoff",
                   !.dur = IF res = "flood" THEN 5 * (f.attempt + 1) ELSE 2]

\* one attempt of safe_send ended: ok, "flood" or "error"
AfterAttempt(f, res, v, stop) ==
    IF res = "ok"
    THEN AfterSend([f EXCEPT !.reports = IF f.what = "crash" THEN @ + 1 ELSE @], v, stop)
    ELSE [f EXCEPT !.pc = "backoff",
                   !.dur = IF res = "flood" THEN 5 * (f.attempt + 1) ELSE 2]

\* a safe_send that tries once more than SEND_ATTEMPTS times
AfterBackoffOnceMore(f, v, stop) ==
    IF f.attempt < SEND_ATTEMPTS
    THEN [f EXCEPT !.pc = "send", !.attempt = @ + 1, !.dur = 0]
    ELSE AfterSend(f, v, stop)

\* the back-off sleep of safe_send ended: next attempt, or give up
AfterBackoff(f, v, stop) ==
    IF f.attempt + 1 < SEND_ATTEMPTS
    THEN [f EXCEPT !.pc = "send", !.attempt = @ + 1, !.dur = 0]
    ELSE AfterSend(f, v, stop)

(***************************************************************************)
(* The protection_loop task t of user u.                                   *)
(***************************************************************************)
At(u, t, pc) ==
    /\ t \in 1..Len(tasks[u])
    /\ tasks[u][t].pc = pc
    /\ ~tasks[u][t].cancel

\* a variant whose clean-up is skipped when the task ends in the crash handler
TaskMovesNoFinally(u, t, g) ==
    /\ tasks' = [tasks EXCEPT ![u][t] = g]
    /\ protect_task' = IF g.pc = "done" /\ g.exit # "crashed"
                       THEN [protect_task EXCEPT ![u] = None]
                       ELSE protect_task

\* The task goes on as frame g; reaching "done" it has run its finally clause.
TaskMoves(u, t, g) ==
    /\ tasks' = [tasks EXCEPT ![u][t] = g]
    /\ protect_task' = IF g.pc = "done" THEN [protect_task EXCEPT ![u] = None]
                       ELSE protect_task

\* first step of the task: s["stop_requested"] = False, cycle = 1, loop head
TaskStart(u, t) ==
    /\ At(u, t, "created")
    /\ stop_requested' = [stop_requested EXCEPT ![u] = FALSE]
    /\ TaskMoves(u, t, LoopHead(tasks[u][t], vouchers[u], FALSE))
    /\ UNCHANGED <<vouchers, checking, chk, buttons, reply, cmds>>

\* a loop whose CancelledError falls to `except Exception` and is reported
TaskCancelledReported(u, t) ==
    /\ t \in 1..Len(tasks[u])
    /\ tasks[u][t].cancel
    /\ tasks[u][t].pc \notin {"created", "done"}
    /\ TaskMoves(u, t, EnterSend([tasks[u][t] EXCEPT !.cancel = FALSE], "crash"))
    /\ UNCHANGED <<vouchers, checking, stop_requested, chk, buttons, reply, cmds>>

\* CancelledError is thrown at the await the task is suspended in:
\* except asyncio.CancelledError: pass, or out of the crash handler; finally
TaskCancelled(u, t) ==
    /\ t \in 1..Len(tasks[u])
    /\ tasks[u][t].cancel
    /\ tasks[u][t].pc \notin {"created", "done"}
    /\ TaskMoves(u, t, Fin(tasks[u][t], "cancelled"))
    /\ UNCHANGED <<vouchers, checking, stop_requested, chk, buttons, reply, cmds>>

\* bot.send_message of the cycle-start message returned or raised
TaskStartSend(u, t, ok) ==
    /\ At(u, t, "start_send")
    /\ TaskMoves(u, t, IF ok THEN ScanStart(tasks[u][t], tasks[u][t].codes, TRUE)
                              ELSE EnterSend(tasks[u][t], "crash"))
    /\ UNCHANGED <<vouchers, checking, stop_requested, chk, buttons, reply, cmds>>

\* bot.edit_message_text returned or raised TelegramError (ignored)
TaskEdit(u, t) ==
    /\ At(u, t, "edit")
    /\ TaskMoves(u, t, AfterProgress(tasks[u][t], TRUE))
    /\ UNCHANGED <<vouchers, checking, stop_requested, chk, buttons, reply, cmds>>

\* _check_voucher returned; an exception out of run_scan is caught by
\* except Exception, which reports the crash
TaskCheck(u, t, o) ==
    /\ At(u, t, "check")
    /\ LET g == AfterCheck(tasks[u][t], _check_voucher(o))
       IN  TaskMoves(u, t, IF g.pc = "raised" THEN EnterSend(tasks[u][t], "crash") ELSE g)
    /\ UNCHANGED <<vouchers, checking, stop_requested, chk, buttons, reply, cmds>>

TaskReset(u, t) ==
    /\ At(u, t, "reset")
    /\ TaskMoves(u, t, AfterReset(tasks[u][t]))
    /\ UNCHANGED <<vouchers, checking, stop_requested, chk, buttons, reply, cmds>>

TaskDelay(u, t) ==
    /\ At(u, t, "delay")
    /\ TaskMoves(u, t, AfterDelay(tasks[u][t], TRUE))
    /\ UNCHANGED <<vouchers, checking, stop_requested, chk, buttons, reply, cmds>>

\* a variant of the loop that takes the codes it found dead off the registry
\* when it has sent the cycle summary
TaskSendDropsDead(u, t, res) ==
    /\ At(u, t, "send")
    /\ TaskMoves(u, t, AfterAttempt(tasks[u][t], res, vouchers[u], stop_requested[u]))
    /\ vouchers' = IF tasks[u][t].what = "summary" /\ res = "ok"
                   THEN [vouchers EXCEPT ![u] = SelectSeq(@, LAMBDA e :
                            \A i \in 1..Len(tasks[u][t].dead) : tasks[u][t].dead[i] # e.code)]
                   ELSE vouchers
    /\ UNCHANGED <<checking, stop_requested, chk, buttons, reply, cmds>>

\* one attempt of safe_send (idle notice, cycle summary or crash report)
TaskSend(u, t, res) ==
    /\ At(u, t, "send")
    /\ TaskMoves(u, t, AfterAttempt(tasks[u][t], res, vouchers[u], stop_requested[u]))
    /\ UNCHANGED <<vouchers, checking, stop_requested, chk, buttons, reply, cmds>>

TaskBackoff(u, t) ==
    /\ At(u, t, "backoff")
    /\ TaskMoves(u, t, AfterBackoff(tasks[u][t], vouchers[u], stop_requested[u]))
    /\ UNCHANGED <<vouchers, checking, stop_requested, chk, buttons, reply, cmds>>

\* asyncio.sleep(5) of the idle wait returned
TaskIdleSleep(u, t) ==
    /\ At(u, t, "idle_sleep")
    /\ TaskMoves(u, t, WaitIter([tasks[u][t] EXCEPT !.n = @ + 1],
                                vouchers[u], stop_requested[u], "idle_sleep"))
    /\ UNCHANGED <<vouchers, checking, stop_requested, chk, buttons, reply, cmds>>

\* asyncio.sleep(5) of the inter-cycle wait returned
TaskSleep(u, t) ==
    /\ At(u, t, "sleep")
    /\ TaskMoves(u, t, WaitIter([tasks[u][t] EXCEPT !.n = @ + 1],
                                vouchers[u], stop_requested[u], "sleep"))
    /\ UNCHANGED <<vouchers, checking, stop_requested, chk, buttons, reply, cmds>>

(***************************************************************************)
(* The one-shot check: cmd_check and handle_plain_message.                 *)
(***************************************************************************)
PlainTexts ==
    { <<" ">>,
      Short,
      codeA \o <<",">> \o CodeB,
      CodeA \o <<" ">> \o CodeA }

RECURSIVE KeepLongWords(_)
\* [w.upper() for w in words if len(w) > 4]
KeepLongWords(words) ==
    IF words = <<>> THEN <<>>
    ELSE (IF Len(Head(words)) > MinCodeLen THEN <<Upper(Head(words))>> ELSE <<>>)
         \o KeepLongWords(Tail(words))

\* text = (update.message.text or "").strip() and
\* potential = [w.upper() for w in text.replace(",", " ").split() if len(w) > 4],
\* for each of the texts
PlainWords ==
    [msg \in PlainTexts |->
        [text |-> Strip(msg),
         potential |-> KeepLongWords(SplitWords(Replace(Strip(msg), ",", " ")))]]

\* s["checking"] = True; prog = await update.message.reply_text(...)
BeginCheck(u, codes) ==
    /\ checking' = [checking EXCEPT ![u] = TRUE]
    /\ chk' = [Frame(u) EXCEPT !.pc = "reply", !.codes = codes]
    /\ Handled(u, [kind |-> "checking", n |-> Len(codes)])

\* cmd_check without the test of s["checking"]
cmd_check_unguarded(u, text) ==
    /\ HandlerMayRun
    /\ LET codes == CommandCodes[text]
       IN IF codes = <<>>
          THEN /\ Handled(u, [kind |-> "usage"])
               /\ UNCHANGED <<checking, chk>>
          ELSE BeginCheck(u, codes)
    /\ UNCHANGED <<vouchers, protect_task, stop_requested, tasks, buttons>>

cmd_check(u, text) ==
    /\ HandlerMayRun
    /\ LET codes == CommandCodes[text]
       IN IF checking[u]
          THEN /\ Handled(u, [kind |-> "busy"])
               /\ UNCHANGED <<checking, chk>>
          ELSE IF codes = <<>>
          THEN /\ Handled(u, [kind |-> "usage"])
               /\ UNCHANGED <<checking, chk>>
          ELSE BeginCheck(u, codes)
    /\ UNCHANGED <<vouchers, protect_task, stop_requested, tasks, buttons>>

handle_plain_message(u, msg) ==
    /\ HandlerMayRun
    /\ LET text == PlainWords[msg].text
           potential == PlainWords[msg].potential
       IN IF text = <<>> \/ potential = <<>>
          THEN /\ Handled(u, [kind |-> "ignored"])
               /\ UNCHANGED <<checking, chk>>
          ELSE IF checking[u]
          THEN /\ Handled(u, [kind |-> "busy"])
               /\ UNCHANGED <<checking, chk>>
          ELSE BeginCheck(u, potential)
    /\ UNCHANGED <<vouchers, protect_task, stop_requested, tasks, buttons>>

InScan(f) == f.pc \in {"edit", "check", "reset", "delay"}

\* The handler goes on as frame g.  When run_scan returns in this step, the
\* finally clause sets s["checking"] = False.
ChkMoves(g) ==
    /\ chk' = g
    /\ checking' = IF ~InScan(g) /\ g.pc # "reply"
                   THEN [checking EXCEPT ![chk.uid] = FALSE] ELSE checking

\* the "Checking..." reply was sent, or reply_text raised: the handler ends
\* with the exception, outside its try statement
ChkReply(ok) ==
    /\ chk.pc = "reply"
    /\ IF ok THEN ChkMoves(ScanStart(chk, chk.codes, FALSE))
             ELSE chk' = NoChk /\ UNCHANGED checking
    /\ reply' = IF ok THEN reply ELSE [uid |-> chk.uid, kind |-> "error"]
    /\ UNCHANGED <<vouchers, protect_task, stop_requested, tasks, buttons, cmds>>

ChkEdit ==
    /\ chk.pc = "edit"
    /\ ChkMoves(AfterProgress(chk, FALSE))
    /\ UNCHANGED <<vouchers, protect_task, stop_requested, tasks, buttons, reply, cmds>>

\* _check_voucher returned; an exception out of run_scan ends the handler
\* through its finally clause
ChkCheck(o) ==
    /\ chk.pc = "check"
    /\ LET g == AfterCheck(chk, _check_voucher(o))
       IN  IF g.pc = "raised"
           THEN /\ chk' = NoChk
                /\ checking' = [checking EXCEPT ![chk.uid] = FALSE]
                /\ reply' = [uid |-> chk.uid, kind |-> "error"]
           ELSE /\ ChkMoves(g)
                /\ UNCHANGED reply
    /\ UNCHANGED <<vouchers, protect_task, stop_requested, tasks, buttons, cmds>>

ChkReset ==
    /\ chk.pc = "reset"
    /\ ChkMoves(AfterReset(chk))
    /\ UNCHANGED <<vouchers, protect_task, stop_requested, tasks, buttons, reply, cmds>>

ChkDelay ==
    /\ chk.pc = "delay"
    /\ ChkMoves(AfterDelay(chk, FALSE))
    /\ UNCHANGED <<vouchers, protect_task, stop_requested, tasks, buttons, reply, cmds>>

Result(f) == [uid |-> f.uid, kind |-> "result", alive |-> f.alive, dead |-> f.dead,
              errors |-> f.errors]

\* ctx.bot.send_message of the results with the protect buttons
ChkResultSend(ok) ==
    /\ chk.pc = "result_send"
    /\ chk' = NoChk
    /\ buttons' = IF ok THEN [buttons EXCEPT ![chk.uid] = Keyboard(chk.uid, chk.alive)]
                  ELSE buttons
    /\ reply' = IF ok THEN Result(chk) ELSE [uid |-> chk.uid, kind |-> "error"]
    /\ UNCHANGED <<vouchers, protect_task, checking, stop_requested, tasks, cmds>>

\* safe_send of the results when no code is alive
ChkSend(res) ==
    /\ chk.pc = "send"
    /\ chk' = AfterAttempt(chk, res, <<>>, FALSE)
    /\ reply' = IF res = "ok" THEN Result(chk) ELSE reply
    /\ UNCHANGED <<vouchers, protect_task, checking, stop_requested, tasks, buttons, cmds>>

ChkBackoff ==
    /\ chk.pc = "backoff"
    /\ chk' = AfterBackoff(chk, <<>>, FALSE)
    /\ UNCHANGED <<vouchers, protect_task, checking, stop_requested, tasks, buttons,
                   reply, cmds>>

(***************************************************************************)
(* The one-shot check as one step.  The handler shares only                *)
(* s["checking"] and the buttons with the rest of the program, and only    *)
(* other handlers read them; as updates are handled one at a time, no step *)
(* of the program can tell the handler's awaits apart.  outs[i] is the     *)
(* remote outcome of codes[i].                                             *)
(***************************************************************************)
RECURSIVE ScanAll(_, _, _)
ScanAll(f, outs, loop) ==
    CASE f.pc = "edit"  -> ScanAll(AfterProgress(f, loop), outs, loop)
      [] f.pc = "check" -> ScanAll(AfterCheck(f, _check_voucher(outs[f.idx])), outs, loop)
      [] f.pc = "reset" -> ScanAll(AfterReset(f), outs, loop)
      [] f.pc = "delay" -> ScanAll(AfterDelay(f, loop), outs, loop)
      [] OTHER          -> f

\* representatives of the remote outcomes: one per bucket, and the one that
\* makes the scan raise
SomeOutcomes ==
    { [kind |-> "unreachable", status |-> None, body |-> <<>>],
      [kind |-> "true", status |-> 200, body |-> <<>>],
      [kind |-> "json", status |-> 200, body |-> [k \in {"voucher"} |-> "ok"]],
      [kind |-> "json", status |-> 200, body |-> [k \in {"errorMessage"} |-> "used"]] }

\* from s["checking"] = True to the end of the handler; sent tells whether the
\* "Checking..." reply and the result message could be sent
WholeCheck(u, codes, outs, sent) ==
    LET f == ScanAll(ScanStart([Frame(u) EXCEPT !.codes = codes], codes, FALSE), outs, FALSE)
    IN  /\ chk' = NoChk
        /\ checking' = [checking EXCEPT ![u] = ~sent[1]]
        /\ buttons' = IF sent[1] /\ sent[2] /\ f.pc # "raised" /\ f.alive # <<>>
                      THEN [buttons EXCEPT ![u] = Keyboard(u, f.alive)] ELSE buttons
        /\ reply' = IF sent[1] /\ sent[2] /\ f.pc # "raised"
                    THEN Result(f) ELSE [uid |-> u, kind |-> "error"]
        /\ cmds' = cmds + 1

Oracles(codes) == [1..Len(codes) -> SomeOutcomes]

check_whole(u, text) ==
    /\ HandlerMayRun
    /\ LET codes == CommandCodes[text]
       IN IF checking[u]
          THEN /\ Handled(u, [kind |-> "busy"])
               /\ UNCHANGED <<checking, chk, buttons>>
          ELSE IF codes = <<>>
          THEN /\ Handled(u, [kind |-> "usage"])
               /\ UNCHANGED <<checking, chk, buttons>>
          ELSE \E outs \in Oracles(codes) : \E sent \in BOOLEAN \X BOOLEAN :
                  WholeCheck(u, codes, outs, sent)
    /\ UNCHANGED <<vouchers, protect_task, stop_requested, tasks>>

plain_whole(u, msg) ==
    /\ HandlerMayRun
    /\ LET text == PlainWords[msg].text
           potential == PlainWords[msg].potential
       IN IF text = <<>> \/ potential = <<>>
          THEN /\ Handled(u, [kind |-> "ignored"])
               /\ UNCHANGED <<checking, chk, buttons>>
          ELSE IF checking[u]
          THEN /\ Handled(u, [kind |-> "busy"])
               /\ UNCHANGED <<checking, chk, buttons>>
          ELSE \E outs \in Oracles(potential) : \E sent \in BOOLEAN \X BOOLEAN :
                  WholeCheck(u, potential, outs, sent)
    /\ UNCHANGED <<vouchers, protect_task, stop_requested, tasks>>

(***************************************************************************)
(* The program.                                                            *)
(***************************************************************************)
SendResults == {"ok", "error"}

TaskStep(u, t) ==
    \/ TaskStart(u, t)
    \/ TaskCancelled(u, t)
    \/ \E ok \in BOOLEAN : TaskStartSend(u, t, ok)
    \/ TaskEdit(u, t)
    \/ \E o \in RemoteOutcomes : TaskCheck(u, t, o)
    \/ TaskReset(u, t)
    \/ TaskDelay(u, t)
    \/ \E res \in SendResults : TaskSend(u, t, res)
    \/ TaskBackoff(u, t)
    \/ TaskIdleSleep(u, t)
    \/ TaskSleep(u, t)

ChkStep ==
    \/ \E ok \in BOOLEAN : ChkReply(ok)
    \/ ChkEdit
    \/ \E o \in RemoteOutcomes : ChkCheck(o)
    \/ ChkReset
    \/ ChkDelay
    \/ \E ok \in BOOLEAN : ChkResultSend(ok)
    \/ \E res \in SendResults : ChkSend(res)
    \/ ChkBackoff

\* A tap by presser on one of the buttons on offer.
Press(presser) ==
    \E chat \in Users : \E data \in buttons[chat] : \E removed \in BOOLEAN :
        callback_protect(presser, chat, data, removed)

\* The updates user u may send: texts of /add, /protect and /check, texts of
\* /pause and /resume, and taps on the buttons on offer.
Command(u, codeTexts, oneTexts) ==
    \/ \E text \in codeTexts : cmd_add(u, text)
    \/ \E text \in codeTexts : cmd_protect(u, text)
    \/ \E text \in codeTexts : check_whole(u, text)
    \/ cmd_run(u)
    \/ cmd_stop(u)
    \/ \E text \in oneTexts : cmd_pause(u, text)
    \/ \E text \in oneTexts : cmd_resume(u, text)
    \/ cmd_clear(u)
    \/ Press(u)

\* texts naming the one code AAAA1
TextA == {CmdWord \o <<" ">> \o codeA}

Owner == CHOOSE u \in Users : \A w \in Users : u <= w

\* One session in depth: the owner sends MaxCmds updates about one code, the
\* other users only tap the owner's buttons, and every protection loop is
\* followed await by await.
\* the step did not begin a cycle beyond the max-th
Within(u, t, max) == ~(tasks'[u][t].pc = "start_send" /\ tasks'[u][t].cycle > max)

Next ==
    \/ cmds < MaxCmds /\ Command(Owner, TextA, TextA)
    \/ cmds < MaxCmds /\ \E u \in Users \ {Owner} : Press(u)
    \/ \E u \in Users : \E t \in 1..Len(tasks[u]) : TaskStep(u, t) /\ Within(u, t, MaxCycle)

Spec == Init /\ [][Next]_vars

\* Two sessions side by side: every user sends updates about one code,
\* MaxCmdsTwo in all.
NextTwo ==
    \/ cmds < MaxCmdsTwo /\ \E u \in Users : Command(u, TextA, TextA)
    \/ \E u \in Users : \E t \in 1..Len(tasks[u]) : TaskStep(u, t) /\ Within(u, t, MaxCycleTwo)

SpecTwo == Init /\ [][NextTwo]_vars

\* The handlers alone, over all the texts: MaxCmdsOnly updates of the two
\* users are handled, and a protection loop is followed to its first await and, once
\* stopped, to its end.  The loop writes no part of the registry, so the
\* registries met are those of the whole program.
NextCmd ==
    \/ cmds < MaxCmdsOnly /\ \E u \in Users : Command(u, CodeTexts, OneCodeTexts)
    \/ \E u \in Users : \E t \in 1..Len(tasks[u]) : TaskStart(u, t) \/ TaskCancelled(u, t)

SpecCmd == Init /\ [][NextCmd]_vars

\* One session whose registry changes while its loop runs: the owner sends
\* MaxCmdsLive updates out of /protect, /add, /pause, /resume and /clear about
\* two codes, and the loop is followed through MaxCycleTwo cycles.
LiveAddTexts == {CmdWord \o <<" ">> \o codeA,
                 CmdWord \o <<" ">> \o CodeB \o <<" ">> \o Short \o <<" ">> \o CodeB}

LiveOneTexts == {CmdWord \o <<" ">> \o codeA, CmdWord \o <<" ">> \o CodeB}

NextLive ==
    \/ cmds < MaxCmdsLive /\ \E text \in LiveAddTexts : cmd_protect(Owner, text)
    \/ cmds < MaxCmdsLive /\ \E text \in LiveAddTexts : cmd_add(Owner, text)
    \/ cmds < MaxCmdsLive /\ \E text \in LiveOneTexts : cmd_pause(Owner, text)
    \/ cmds < MaxCmdsLive /\ \E text \in LiveOneTexts : cmd_resume(Owner, text)
    \/ cmds < MaxCmdsLive /\ cmd_clear(Owner)
    \/ \E t \in 1..Len(tasks[Owner]) : TaskStep(Owner, t) /\ Within(Owner, t, MaxCycleTwo)

SpecLive == Init /\ [][NextLive]_vars

\* The one-shot checks step by step: the users send MaxCmdsCheck updates out
\* of /check and plain messages, and the check a handler has started is
\* followed through every await until the handler returns or raises.
NextCheck ==
    \/ cmds < MaxCmdsCheck /\ \E u \in Users : \E text \in CodeTexts : cmd_check(u, text)
    \/ cmds < MaxCmdsCheck /\ \E u \in Users : \E msg \in PlainTexts : handle_plain_message(u, msg)
    \/ ChkStep

SpecCheck == Init /\ [][NextCheck]_vars

\* Checks and the buttons they offer: the users send MaxCmdsButton updates
\* out of /check, button presses and /stop; the checks are taken whole, and
\* a protection loop is followed to its first await and, once stopped, to
\* its end.
ButtonTexts ==
    {CmdWord \o <<" ">> \o CodeA \o <<",">> \o CodeB,
     CmdWord \o <<" ">> \o CodeB \o <<" ">> \o Short \o <<" ">> \o CodeB}

NextButton ==
    \/ cmds < MaxCmdsButton /\ \E u \in Users : \E text \in ButtonTexts : check_whole(u, text)
    \/ cmds < MaxCmdsButton /\ \E u \in Users : Press(u)
    \/ cmds < MaxCmdsButton /\ \E u \in Users : cmd_stop(u)
    \/ \E u \in Users : \E t \in 1..Len(tasks[u]) : TaskStart(u, t) \/ TaskCancelled(u, t)

SpecButton == Init /\ [][NextButton]_vars

\* run_scan alone, as the one-shot check calls it, on every sequence of at
\* most MaxScan codes, the empty one included.
RECURSIVE SeqsUpTo(_, _)
SeqsUpTo(S, n) ==
    IF n = 0 THEN {<<>>}
    ELSE LET shorter == SeqsUpTo(S, n - 1)
         IN shorter \cup {Append(q, x) : q \in shorter, x \in S}

ScanInputs == SeqsUpTo({CodeA, CodeB}, MaxScan)

InitScan ==
    /\ vouchers = [u \in Users |-> <<>>]
    /\ protect_task = [u \in Users |-> None]
    /\ checking = [u \in Users |-> u = Owner]
    /\ stop_requested = [u \in Users |-> FALSE]
    /\ tasks = [u \in Users |-> <<>>]
    /\ \E codes \in ScanInputs : chk = [Frame(Owner) EXCEPT !.pc = "reply", !.codes = codes]
    /\ buttons = [u \in Users |-> {}]
    /\ reply = [uid |-> Owner, kind |-> "checking"]
    /\ cmds = 1

SpecScan == InitScan /\ [][ChkStep]_vars /\ WF_vars(ChkStep)

\* The one-shot check with a channel that also reports flood control to
\* safe_send: every attempt of the result message ends ok, with a flood
\* error or with another TelegramError.
NextSend ==
    \/ ChkStep
    \/ ChkSend("flood")

SpecSend == InitScan /\ [][NextSend]_vars /\ WF_vars(NextSend)

\* update_progress alone: the closure of one run_scan over codes, alive, dead
\* and last_text is called MaxEvents times with every (done, current), the
\* ones run_scan never passes twice included; between two calls a code may
\* be classified alive or dead, which changes the counts the text shows.
\* idx counts the calls made.
ProgressInputs == [done : 0..MaxScan, current : {CodeA, CodeB, DoneMark}]

InitProgress ==
    /\ vouchers = [u \in Users |-> <<>>]
    /\ protect_task = [u \in Users |-> None]
    /\ checking = [u \in Users |-> u = Owner]
    /\ stop_requested = [u \in Users |-> FALSE]
    /\ tasks = [u \in Users |-> <<>>]
    /\ \E codes \in ScanInputs : chk = [Frame(Owner) EXCEPT !.pc = "progress", !.codes = codes]
    /\ buttons = [u \in Users |-> {}]
    /\ reply = [uid |-> Owner, kind |-> "checking"]
    /\ cmds = 1

ProgressEvent(e) ==
    /\ chk.pc = "progress"
    /\ chk.idx < MaxEvents
    /\ chk' = update_progress([chk EXCEPT !.idx = @ + 1], e.done, e.current)
    /\ UNCHANGED <<vouchers, protect_task, checking, stop_requested, tasks, buttons, reply, cmds>>

\* bot.edit_message_text returned (ok) or raised TelegramError, which
\* update_progress swallows: it returns to run_scan either way
ProgressEdit(ok) ==
    /\ chk.pc = "edit"
    /\ chk' = [chk EXCEPT !.pc = "progress"]
    /\ UNCHANGED <<vouchers, protect_task, checking, stop_requested, tasks, buttons, reply, cmds>>

\* alive.append(code) or dead.append(code) of the next code
ProgressBucket(b) ==
    /\ chk.pc = "progress"
    /\ Len(chk.alive) + Len(chk.dead) < Len(chk.codes)
    /\ LET code == chk.codes[Len(chk.alive) + Len(chk.dead) + 1]
       IN chk' = IF b = "alive" THEN [chk EXCEPT !.alive = Append(@, code)]
                                ELSE [chk EXCEPT !.dead = Append(@, code)]
    /\ UNCHANGED <<vouchers, protect_task, checking, stop_requested, tasks, buttons, reply, cmds>>

NextProgress ==
    \/ \E e \in ProgressInputs : ProgressEvent(e)
    \/ \E ok \in BOOLEAN : ProgressEdit(ok)
    \/ \E b \in {"alive", "dead"} : ProgressBucket(b)

SpecProgress == InitProgress /\ [][NextProgress]_vars

(***************************************************************************)
(* Properties.                                                             *)
(***************************************************************************)
\* the tasks of session u that were created and have not finished
Live(u) == {t \in 1..Len(tasks[u]) : tasks[u][t].pc # "done"}

\* those of them that /stop has not cancelled: they go on scanning
Scanning(u) == {t \in Live(u) : ~tasks[u][t].cancel}

\* C1: at any moment a session has at most one protection-loop task that is
\* live and goes on scanning (a task /stop has cancelled and that is still
\* unwinding is left out of the count), whatever the order of the start
\* actions, /stop and the clean-up of exiting tasks.
C1_SingleLoop == \A u \in Users : Cardinality(Scanning(u)) <= 1

\* the update handled by this step was sent by u and answered with one of kinds
Answered(u, kinds) == cmds' = cmds + 1 /\ reply'.uid = u /\ reply'.kind \in kinds

\* C2: never-delete.  Over any cycles and one-shot scans, whatever they find
\* dead or unreachable, an entry leaves the registry only by an explicit
\* /clear of its owner and becomes paused only by an explicit /pause of it:
\* no step of run_scan or protection_loop removes an entry or changes paused.
C2_NeverDelete ==
    [][\A u \in Users : \A i \in 1..Len(vouchers[u]) :
          LET e == vouchers[u][i]
          IN  /\ e.code \notin Keys(vouchers'[u]) => Answered(u, {"cleared"})
              /\ (/\ e.code \in Keys(vouchers'[u])
                  /\ vouchers'[u][IndexOf(vouchers'[u], e.code)].paused # e.paused)
                 => /\ Answered(u, {"paused", "resumed"})
                    /\ reply'.code = e.code
                    /\ e.paused = (reply'.kind = "resumed")]_vars

\* a loop is sending the summary of its second cycle, in which it found a
\* code dead or unreachable again, and the code is still registered, unpaused
C2_Witness ==
    \E u \in Users : \E t \in 1..Len(tasks[u]) :
        LET f == tasks[u][t]
        IN  /\ f.pc = "send" /\ f.what = "summary" /\ f.cycle = 2
            /\ f.dead \o f.errors # <<>>
            /\ \A i \in 1..Len(f.dead \o f.errors) :
                  \E j \in 1..Len(vouchers[u]) :
                      vouchers[u][j] = [code |-> (f.dead \o f.errors)[i], paused |-> FALSE]

BucketNames == {"alive", "dead", "errors"}

\* the codes at the positions of codes that lab sends to bucket b, in order
RECURSIVE Picked(_, _, _)
Picked(codes, lab, b) ==
    IF codes = <<>> THEN <<>>
    ELSE LET n == Len(codes)
         IN  Picked(SubSeq(codes, 1, n - 1), lab, b)
             \o (IF lab[n] = b THEN <<codes[n]>> ELSE <<>>)

\* the number of codes of the scan of frame f that have been put in a bucket
Bucketed(f) ==
    IF f.pc \in {"edit", "check"} THEN f.idx - 1
    ELSE IF f.pc \in {"reset", "delay"} THEN f.idx
    ELSE Len(f.codes)

\* the buckets of f hold each of the first k positions once and in input order
PartitionOf(f, k) ==
    \E lab \in [1..k -> BucketNames] :
        /\ f.alive  = Picked(SubSeq(f.codes, 1, k), lab, "alive")
        /\ f.dead   = Picked(SubSeq(f.codes, 1, k), lab, "dead")
        /\ f.errors = Picked(SubSeq(f.codes, 1, k), lab, "errors")

ScanOver == chk.pc \notin {"reply", "edit", "check", "reset", "delay"}

\* C3: for every input sequence (empty, one code, a code repeated) and all
\* remote outcomes, run_scan comes to its end by returning, and what it
\* returns holds every input position in exactly one of alive, dead and
\* errors, each bucket in input order; the same holds at every moment of the
\* scan for the positions done so far.
C3_ScanPartition ==
    /\ [](chk.pc \notin {"none", "reply"} =>
            /\ PartitionOf(chk, Bucketed(chk))
            /\ Len(chk.alive) + Len(chk.dead) + Len(chk.errors) = Bucketed(chk))
    /\ [][InScan(chk) /\ ~InScan(chk') => chk'.pc \in {"result_send", "send"}]_vars
    /\ <>ScanOver

\* C4: a transport or parse failure of the remote check (service unreachable,
\* timeout, a body that is not JSON) puts the code in errors, never in dead.
C4_FailureIsError ==
    [][\A o \in RemoteOutcomes :
          (o.kind \in {"unreachable", "garbage"} /\ ChkCheck(o))
          => /\ chk'.errors = Append(chk.errors, chk.codes[chk.idx])
             /\ chk'.dead = chk.dead]_vars

\* the bucket the check of outcome o has appended the code in hand to, in a
\* step of the one-shot scan
Appended(b) ==
    LET code == chk.codes[chk.idx]
    IN  /\ chk'.alive  = IF b = "alive"  THEN Append(chk.alive, code)  ELSE chk.alive
        /\ chk'.dead   = IF b = "dead"   THEN Append(chk.dead, code)   ELSE chk.dead
        /\ chk'.errors = IF b = "errors" THEN Append(chk.errors, code) ELSE chk.errors

\* C5: classification is a function of the response only: every received
\* body without the key "errorMessage", the empty object included, is Alive;
\* every body with the key is Dead whatever its message; the code string
\* plays no part.
C5_AsStated ==
    [][\A o \in RemoteOutcomes :
          (o.kind = "json" /\ ChkCheck(o))
          => Appended(IF "errorMessage" \in DOMAIN o.body THEN "dead" ELSE "alive")]_vars

ToSet(q) == {q[i] : i \in 1..Len(q)}

\* what the claim asks of an add of codes to the registry of u that is
\* answered with the counts added and skipped
AddedAsClaimed(u, codes, added, skipped) ==
    LET old == vouchers[u]
        new == vouchers'[u]
        N   == Cardinality(ToSet(codes) \ Keys(old))
    IN  /\ Len(new) = Len(old) + N
        /\ SubSeq(new, 1, Len(old)) = old
        /\ \A i \in (Len(old) + 1)..Len(new) : new[i].code \in ToSet(codes) /\ ~new[i].paused
        /\ Keys(new) = Keys(old) \cup ToSet(codes)
        /\ added = N
        /\ skipped = Len(codes) - N

Asleep(f) == f.pc \in {"sleep", "idle_sleep"}

\* C7: a /stop handled while the protection loop of the session is in its
\* inter-cycle or idle sleep ends that loop within one sleep increment: the
\* /stop cancels the sleeping task, and the next step of a cancelled sleeping
\* task is its last, so that it waits out no further increment, starts no
\* scan and issues no remote check.
C7_StopEndsSleep ==
    [][\A u \in Users : \A t \in 1..Len(tasks[u]) :
          /\ (Asleep(tasks[u][t]) /\ Answered(u, {"stopped", "not_running"}))
             => tasks'[u][t].cancel
          /\ (Asleep(tasks[u][t]) /\ tasks[u][t].cancel /\ tasks'[u][t] # tasks[u][t])
             => tasks'[u][t].pc = "done"]_vars

\* the task t of session u ends in this step
Exits(u, t) == tasks[u][t].pc # "done" /\ tasks'[u][t].pc = "done"

\* C8: whenever a protection loop task ends, by leaving the loop, by
\* cancellation or after a crash of the cycle body, the handle protect_task
\* of its session is cleared in that step; and a /run handled with a
\* non-empty registry and a cleared handle is accepted: it starts a new loop
\* task and stores its handle.
C8_HandleCleared ==
    [][\A u \in Users :
          /\ \A t \in 1..Len(tasks[u]) : Exits(u, t) => protect_task'[u] = None
          /\ (/\ Answered(u, {"run_started", "already_running", "no_codes"})
              /\ vouchers[u] # <<>>
              /\ protect_task[u] = None)
             => /\ reply'.kind = "run_started"
                /\ Len(tasks'[u]) = Len(tasks[u]) + 1
                /\ protect_task'[u] = Len(tasks'[u])
                /\ tasks'[u][protect_task'[u]].pc = "created"]_vars

\* a loop has crashed and ended, and the /run after it has been accepted
C8_Witness ==
    /\ reply.kind = "run_started"
    /\ \E t \in 1..Len(tasks[reply.uid]) :
          /\ tasks[reply.uid][t].exit = "crashed"
          /\ protect_task[reply.uid] > t

\* C9: a /stop handled while no protection loop is running (no handle, or the
\* handle of a finished task) is answered with "not running", cancels nothing
\* and leaves the registry, protect_task, stop_requested and checking of the
\* session as they were.
C9_StopWhenIdle ==
    [][\A u \in Users :
          (Answered(u, {"stopped", "not_running"}) /\ ~Running(u))
          => /\ reply'.kind = "not_running"
             /\ tasks' = tasks
             /\ vouchers' = vouchers
             /\ protect_task' = protect_task
             /\ stop_requested' = stop_requested
             /\ checking' = checking]_vars

\* a /stop has just been answered with "not running" in a session that has a
\* registry and has had a loop before
C9_Witness ==
    /\ reply.kind = "not_running"
    /\ vouchers[reply.uid] # <<>>
    /\ tasks[reply.uid] # <<>>
    /\ protect_task[reply.uid] = None

\* the parts of the state that belong to session w
Session(w) == <<vouchers[w], protect_task[w], stop_requested[w], checking[w], tasks[w]>>

\* the task is in its crash handler, or has ended through it
Crashing(f) == f.what = "crash" \/ f.exit = "crashed"

\* C10: a failure inside the cycle body of one session's protection loop is
\* caught and reported to that user at most once, and it ends only that
\* task: no step of the crash handling changes another task, the registry of
\* the session or anything of another session, and the crashed task ends with
\* its handle cleared while the other sessions go on.
C10_CrashContained ==
    [][\A u \in Users : \A t \in 1..Len(tasks[u]) :
          (tasks'[u][t] # tasks[u][t] /\ Crashing(tasks'[u][t]))
          => /\ tasks'[u][t].reports <= 1
             /\ \A w \in Users \ {u} : Session(w)' = Session(w)
             /\ \A t2 \in 1..Len(tasks[u]) : t2 # t => tasks'[u][t2] = tasks[u][t2]
             /\ vouchers'[u] = vouchers[u]
             /\ tasks'[u][t].exit = "crashed" => protect_task'[u] = None]_vars

\* the loop of one session has crashed, reported it once and ended, while the
\* loop of another session is in the middle of a scan
C10_Witness ==
    \E u \in Users : \E w \in Users \ {u} :
        /\ \E t \in 1..Len(tasks[u]) :
              tasks[u][t].exit = "crashed" /\ tasks[u][t].reports = 1
        /\ protect_task[w] # None
        /\ tasks[w][protect_task[w]].pc \in {"check", "reset", "delay"}

\* the task awaits the notification channel outside the crash handler: the
\* cycle-start message, a progress edit, or the cycle summary or idle notice
\* in safe_send (an attempt or the back-off between two attempts)
Notifying(f) ==
    \/ f.pc \in {"start_send", "edit"}
    \/ f.pc \in {"send", "backoff"} /\ f.what \in {"summary", "idle"}

\* C11: a failure of the notification channel (sending the cycle-start
\* message, editing the progress message, sending the cycle summary or the
\* idle notice) never aborts the scan and never ends the protection loop: a
\* task that /stop has not cancelled leaves such an await still in its loop,
\* neither in its crash handler nor ended.
C11_NotifyFailureHarmless ==
    [][\A u \in Users : \A t \in 1..Len(tasks[u]) :
          (Notifying(tasks[u][t]) /\ ~tasks[u][t].cancel /\ tasks'[u][t] # tasks[u][t])
          => ~Crashing(tasks'[u][t]) /\ tasks'[u][t].pc # "done"]_vars

\* the text of a /pause or /resume that names no code, or a code that is not
\* a key of the registry v
Misuse(v, text) ==
    \/ CtxArgs(text) = <<>>
    \/ Upper(CtxArgs(text)[1]) \notin Keys(v)

\* C12: a /pause or /resume with no argument, or naming a code that is not in
\* the registry, is answered with a validation error only: the registry of
\* the session, its key set and every paused value, is left as it was.
C12_MisuseNoMutation ==
    [][(cmds' = cmds + 1 /\ reply'.kind \in {"usage", "not_in_list", "resume_added"})
       => \A text \in OneCodeTexts :
             (/\ Misuse(vouchers[reply'.uid], text)
              /\ cmd_pause(reply'.uid, text) \/ cmd_resume(reply'.uid, text))
             => /\ vouchers' = vouchers
                /\ reply'.kind \in {"usage", "not_in_list"}]_vars

\* the awaits of one cycle after its scan set is computed
InCycle(f) == f.pc \in {"start_send", "edit", "check", "reset", "delay"}

\* the step takes the task to the top of a cycle, or to the idle notice
StartsCycle(u, t) == tasks'[u][t].pc = "start_send" /\ tasks[u][t].pc # "start_send"

StartsIdle(u, t) ==
    /\ tasks'[u][t].pc = "send" /\ tasks'[u][t].what = "idle"
    /\ ~(tasks[u][t].pc \in {"send", "backoff"} /\ tasks[u][t].what = "idle")

\* C13: every cycle computes its scan set from the registry as it is when
\* the cycle starts: the codes that are then present and not paused, in
\* registry order, a code added or resumed since the last cycle included and
\* a code paused or cleared since then left out, with no restart of the loop;
\* the loop idles exactly when that set is empty, and the set of a cycle
\* under way does not change.
C13_LiveScanSet ==
    [][\A u \in Users : \A t \in 1..Len(tasks[u]) :
          /\ StartsCycle(u, t)
                => /\ tasks'[u][t].codes = ActiveCodes(vouchers[u])
                   /\ tasks'[u][t].codes # <<>>
          /\ StartsIdle(u, t) => ActiveCodes(vouchers[u]) = <<>>
          /\ (InCycle(tasks[u][t]) /\ InCycle(tasks'[u][t]))
                => tasks'[u][t].codes = tasks[u][t].codes]_vars

\* the last update added a code while the loop was running, the registry
\* holds a paused code, and the loop, never restarted, is in its second
\* cycle, scanning the added code and not the paused one
C13_Witness ==
    /\ cmds = MaxCmdsLive
    /\ Len(tasks[Owner]) = 1
    /\ reply.kind = "added" /\ reply.added = 1
    /\ vouchers[Owner] = <<[code |-> CodeA, paused |-> TRUE], [code |-> CodeB, paused |-> FALSE]>>
    /\ tasks[Owner][1].cycle = 2
    /\ tasks[Owner][1].pc = "check"
    /\ tasks[Owner][1].codes = <<CodeB>>

\* a one-shot scan of session u is in flight: its handler has set the guard
\* and run_scan has not yet returned
InFlight(u) == chk.uid = u /\ (chk.pc = "reply" \/ InScan(chk))

\* C14: a session has at most one one-shot scan in flight.  A scan in flight
\* holds the guard checking of its session; a /check or plain-text check
\* handled while the guard is set is rejected, starting no scan and leaving
\* the guard alone; and the step that starts a scan finds the guard clear
\* and sets it in that same step, so that no other handler of the session
\* runs between the test and the set.
C14_OneCheckInFlight ==
    /\ [](\A u \in Users : InFlight(u) => checking[u])
    /\ [][\A u \in Users :
            /\ (cmds' = cmds + 1 /\ reply'.uid = u /\ checking[u])
                  => /\ reply'.kind \in {"busy", "ignored"}
                     /\ chk' = chk /\ checking' = checking
            /\ (~InFlight(u) /\ InFlight(u)')
                  => ~checking[u] /\ checking'[u]]_vars

\* a check has just been rejected because the guard of the session was set
C14_Witness ==
    /\ reply.kind = "busy"
    /\ checking[reply.uid]
    /\ chk.pc = "none"

\* the loop tasks of session u that /stop has not cancelled and that are
\* inside a cycle
InCycleOf(u) == {t \in Scanning(u) : InCycle(tasks[u][t])}

\* the task is in safe_send with its cycle summary
SendsSummary(f) == f.pc \in {"send", "backoff"} /\ f.what = "summary"

\* C15: the cycles of the protection loop of one session never overlap, and
\* the report of cycle N is out before cycle N+1 scans: at any moment at most
\* one cycle of the session is under way; a cycle is left only into the send
\* of its summary (or by the end of the task), the cycle number advances only
\* when that send has ended, and only then can the next cycle be entered and
\* a remote check of it be issued.
C15_CyclesInOrder ==
    /\ [](\A u \in Users : Cardinality(InCycleOf(u)) <= 1)
    /\ [][\A u \in Users : \A t \in 1..Len(tasks[u]) :
            LET f == tasks[u][t]
                g == tasks'[u][t]
            IN  /\ (InCycle(f) /\ ~InCycle(g))
                      => SendsSummary(g) \/ Crashing(g) \/ g.pc = "done"
                /\ (g.cycle # f.cycle /\ g.pc # "done")
                      => g.cycle = f.cycle + 1 /\ SendsSummary(f) /\ ~SendsSummary(g)
                /\ (SendsSummary(f) /\ ~SendsSummary(g) /\ g.pc # "done")
                      => g.cycle = f.cycle + 1
                /\ (g.pc = "check" /\ g # f) => InCycle(f) /\ g.cycle = f.cycle]_vars

\* C16: progress de-duplication.  Within one scan, a progress event whose
\* rendered text is the text rendered last causes no call of
\* edit_message_text and leaves last_text alone; one whose text differs
\* causes exactly one call and becomes the text rendered last; and a call of
\* edit_message_text, returned or failed, changes neither, so that the event
\* after a failed edit is compared with the text of that edit.
C16_ProgressDedup ==
    [][/\ chk'.idx = chk.idx + 1
          => \A e \in ProgressInputs :
                ProgressEvent(e)
                => LET text == ProgressText(chk, e.done, e.current)
                   IN  /\ text = chk.last_text
                             => chk'.edits = chk.edits /\ chk'.pc # "edit"
                                /\ chk'.last_text = chk.last_text
                       /\ (text # chk.last_text /\ chk.codes # <<>>)
                             => chk'.edits = chk.edits + 1 /\ chk'.pc = "edit"
                                /\ chk'.last_text = text
       /\ (\E ok \in BOOLEAN : ProgressEdit(ok))
          => chk'.edits = chk.edits /\ chk'.last_text = chk.last_text]_vars

\* two consecutive events with the same rendered text have been handled,
\* and edit_message_text was called once
C16_Witness ==
    /\ chk.pc = "progress"
    /\ chk.idx = 2
    /\ chk.edits = 1
    /\ chk.alive = <<>> /\ chk.dead = <<>>
    /\ chk.last_text = ProgressText(chk, 1, CodeB)

\* C17: cancellation is silent.  The next step of a loop task that /stop has
\* cancelled, whatever it awaits (a sleep, a remote check, a clean-up, a
\* send or edit), ends the task as cancelled without entering the crash
\* handler and without a report; and no task that ended by cancellation or
\* by the stop flag has sent a 'Protection crashed' report.
C17_SilentCancel ==
    /\ [](\A u \in Users : \A t \in 1..Len(tasks[u]) :
            tasks[u][t].exit \in {"cancelled", "returned"} => tasks[u][t].reports = 0)
    /\ [][\A u \in Users : \A t \in 1..Len(tasks[u]) :
            (tasks[u][t].cancel /\ tasks'[u][t] # tasks[u][t])
            => /\ tasks'[u][t].pc = "done"
               /\ tasks'[u][t].exit = "cancelled"
               /\ tasks'[u][t].reports = 0]_vars

\* the session has been stopped twice: its two loop tasks have both ended
\* by cancellation, none with a report
C17_Witness ==
    \E u \in Users :
        /\ Len(tasks[u]) = 2
        /\ reply.kind = "stopped"
        /\ \A t \in 1..Len(tasks[u]) :
              tasks[u][t].exit = "cancelled" /\ tasks[u][t].reports = 0

\* the /protect message that names the codes the button carries
ProtectText(codes) == CmdWord \o <<" ">> \o Join(codes, <<" ">>)

Normalized(code) == Upper(code) = code /\ Len(code) > MinCodeLen

\* C19: in every reachable state every key of the registry of every session
\* is a normalized code, whichever of /add, /protect, /resume and the protect
\* buttons inserted it.
C19_KeysNormalized ==
    \A u \in Users : \A i \in 1..Len(vouchers[u]) : Normalized(vouchers[u][i].code)

\* the codes classified so far
Classified(f) == Len(f.alive) + Len(f.dead) + Len(f.errors)

\* C20: the checks of one scan are strictly sequential and follow the
\* per-code protocol in input order.  For the code at index idx: the progress
\* event, then the check request, then the classification into exactly one
\* bucket, then the clean-up request, then the pacing delay; only the end of
\* that delay moves on to index idx + 1, so the check of the next code is
\* never issued before the clean-up and the delay of this one are over.  A
\* scan that runs to completion has gone through every index once: one check
\* and one clean-up per input element, network errors included.
C20_ScanProtocol ==
    [][LET f == chk
           g == chk'
       IN  /\ g.pc = "check" => f.pc \in {"reply", "edit", "delay"} /\ g.idx <= Len(g.codes)
           /\ f.pc = "reply" /\ InScan(g) => g.idx = 1 /\ Classified(g) = 0
           /\ f.pc = "edit" /\ f.idx <= Len(f.codes)
                 => g.pc = "check" /\ g.idx = f.idx /\ Classified(g) = f.idx - 1
           /\ f.pc = "check" /\ g.pc # "none"
                 => /\ g.pc = "reset" /\ g.idx = f.idx
                    /\ Classified(g) = f.idx
                    /\ \E b \in BucketNames :
                          /\ g[b] = Append(f[b], f.codes[f.idx])
                          /\ \A c \in BucketNames \ {b} : g[c] = f[c]
           /\ f.pc = "reset" => g.pc = "delay" /\ g.idx = f.idx /\ Classified(g) = f.idx
           /\ f.pc = "delay" => g.idx = f.idx + 1 /\ g.pc = "edit"
           /\ InScan(f) /\ ~InScan(g) /\ g.pc # "none"
                 => f.idx = Len(f.codes) + 1 /\ Classified(g) = Len(f.codes)]_vars

\* the checks of both codes of a scan got no response: the second one has
\* been cleaned up as well and the scan is in its pacing delay
C20_Witness ==
    /\ chk.pc = "delay"
    /\ Len(chk.codes) = 2 /\ chk.idx = 2
    /\ chk.errors = chk.codes

\* the handler is inside safe_send: in an attempt or in the sleep after a
\* failed one
InSafeSend(f) == f.pc \in {"send", "backoff"}

\* C21: safe_send ends after at most SEND_ATTEMPTS attempts.  It returns at
\* the first attempt that succeeds; after the k-th attempt has failed
\* (attempt = k - 1) it sleeps 5 * k seconds when the error tells of flood
\* control and 2 seconds otherwise; after the sleep that follows the third
\* failure it returns without an error reaching its caller; and every call
\* does end.
C21_SafeSendBounded ==
    /\ [](InSafeSend(chk) => chk.attempt < SEND_ATTEMPTS)
    /\ [][InSafeSend(chk)
            => /\ ChkSend("ok") => ~InSafeSend(chk') /\ reply'.kind = "result"
               /\ ChkSend("flood")
                     => /\ chk'.pc = "backoff" /\ chk'.attempt = chk.attempt
                        /\ chk'.dur = 5 * (chk.attempt + 1)
               /\ ChkSend("error")
                     => /\ chk'.pc = "backoff" /\ chk'.attempt = chk.attempt
                        /\ chk'.dur = 2
               /\ (ChkBackoff /\ chk.attempt + 1 < SEND_ATTEMPTS)
                     => chk'.pc = "send" /\ chk'.attempt = chk.attempt + 1
               /\ (ChkBackoff /\ chk.attempt + 1 = SEND_ATTEMPTS)
                     => chk' = NoChk /\ reply' = reply /\ reply.kind # "error"]_vars
    /\ (InSafeSend(chk) ~> ~InSafeSend(chk))

\* the third attempt has met flood control: safe_send is in its last sleep,
\* of 15 seconds
C21_Witness ==
    /\ chk.pc = "backoff"
    /\ chk.attempt = SEND_ATTEMPTS - 1
    /\ chk.dur = 5 * SEND_ATTEMPTS

\* the task is in an idle iteration: in safe_send with the idle notice, or
\* in the wait that follows it
Idle(f) == (f.pc \in {"send", "backoff"} /\ f.what = "idle") \/ f.pc = "idle_sleep"

\* C22: a running loop that finds no active code, the registry being empty
\* or all paused, scans nothing and issues no remote check in that
\* iteration: it sends the idle notice and waits in sleep increments,
\* looking at the stop flag before each one, and it stays running, its
\* handle untouched; the iteration ends only into the next idle iteration,
\* into a cycle over the codes that are active by then, or, with the stop
\* flag set, by the return of the loop, which returns for no other reason.
\* A /run with an empty registry is
\* refused and creates no loop task.
C22_IdleLoop ==
    [][/\ \A u \in Users : \A t \in 1..Len(tasks[u]) :
            LET f == tasks[u][t]
                g == tasks'[u][t]
            IN  /\ StartsIdle(u, t) => ActiveCodes(vouchers[u]) = <<>> /\ g.codes = <<>>
                /\ (f.pc # "done" /\ g.pc = "done" /\ g.exit = "returned")
                      => stop_requested[u]
                /\ (Idle(f) /\ ~f.cancel /\ g # f /\ cmds' = cmds)
                      => /\ Idle(g) \/ g.pc = "start_send" \/ g.pc = "done"
                         /\ g.pc = "start_send"
                               => g.codes = ActiveCodes(vouchers[u]) /\ g.codes # <<>>
                         /\ g.pc = "done" <=> stop_requested[u]
                         /\ ~stop_requested[u] => protect_task' = protect_task
                         /\ (f.pc = "idle_sleep" /\ g.pc = "idle_sleep") => g.n = f.n + 1
                         /\ g.pc = "idle_sleep" => g.n < Increments
       /\ \A u \in Users :
            (cmd_run(u) /\ vouchers[u] = <<>>)
            => reply'.kind = "no_codes" /\ tasks' = tasks /\ protect_task' = protect_task]_vars

\* the loop of a session whose only code is paused has sent its idle notice
\* and slept an increment; it is still the running loop of the session
C22_Witness ==
    \E u \in Users :
        /\ Running(u)
        /\ vouchers[u] # <<>> /\ ActiveCodes(vouchers[u]) = <<>>
        /\ tasks[u][protect_task[u]].pc = "idle_sleep"
        /\ tasks[u][protect_task[u]].n >= 1

\* C23: the guard of the one-shot checks is always released.  Whenever no
\* check handler of a session is under way, whether the last one ended
\* normally or because its first reply, its scan or its result message
\* failed, checking is false for that session, so that no check is rejected
\* while no scan is in flight.
C23_GuardReleased ==
    /\ [](\A u \in Users : checking[u] => InFlight(u))
    /\ [][(cmds' = cmds + 1 /\ reply'.kind = "busy") => InFlight(reply'.uid)]_vars

\* C24: session isolation.  An update of user u, text command or press of a
\* protect button, changes only the session of u: the registry, the loop
\* handle and tasks, the stop flag and the guard of every other user stay as
\* they were; no action of u adds codes to the session of another user or
\* starts a protection loop for it.
C24_SessionIsolation ==
    [][cmds' = cmds + 1
       => \A w \in Users \ {reply'.uid} : Session(w)' = Session(w)]_vars

\* C25: no check is left without its clean-up.  A loop task whose
\* verification request for a code is out does not end before the clean-up
\* request for that code, also when /stop cancels it in between: its next
\* step leaves it alive, to issue the clean-up.
C25_CheckThenCleanup ==
    [][\A u \in Users : \A t \in 1..Len(tasks[u]) :
          (tasks[u][t].pc = "check" /\ tasks'[u][t] # tasks[u][t] /\ cmds' = cmds)
          => tasks'[u][t].pc # "done"]_vars

\* C26: handle and task agree.  In every reachable state the handle
\* protect_task of a session names an unfinished task exactly when a loop
\* task of the session is live and goes on scanning (a task that /stop has
\* cancelled and that is unwinding is not counted), so that /status and
\* /list say RUNNING exactly when a loop runs; and a loop task that exits
\* never clears a handle that names another, newer task.
C26_HandleMatchesTask ==
    /\ [](\A u \in Users : Running(u) <=> Scanning(u) # {})
    /\ [][\A u \in Users : \A t \in 1..Len(tasks[u]) :
            (Exits(u, t) /\ protect_task[u] \notin {None, t})
            => protect_task'[u] = protect_task[u]]_vars

====
